---- MODULE Spec2Model ----
(***************************************************************************)
(* Settlement calculation engine and payout processing pipeline of the     *)
(* HealthPay PayFac backend.                                               *)
(*                                                                         *)
(* Money is held in piastres (1/100 EGP), so every 2-decimal amount of the *)
(* source is an integer here and decimal.js arithmetic is exact integer    *)
(* arithmetic.  Dates are day numbers; a period is a closed day interval   *)
(* (start-of-day of the first day .. end-of-day of the last).  An absent   *)
(* (null / undefined) id or number is Null.                                *)
(***************************************************************************)
EXTENDS Integers, Sequences, FiniteSets, TLC

VARIABLES
    subMerchant,    \* the sub-merchant row (read only by the engine)
    transactions,   \* Transaction rows, id -> row
    refunds,        \* Refund rows, id -> row
    disputes,       \* Dispute rows, id -> row
    reserves,       \* Reserve rows, in creation order (id = index)
    settlements,    \* Settlement rows, in creation order (id = index)
    items,          \* SettlementItem rows
    payouts,        \* Payout rows, in creation order (id = index)
    today,          \* the wall clock, as a day number
    run,            \* the in-flight calculateSettlementForMerchant calls
    stlNotes,       \* settlement ids the notification sink was sent
    faults,         \* how many calls have thrown so far
    impl,           \* which PayoutService source is deployed
    batches,        \* PayoutBatch rows, in creation order (id = index)
    job,            \* the in-flight scheduled payout run and retry sweep
    rail,           \* payout id -> transfers the payment rail has accepted
    payNotes,       \* payout id -> payout notifications delivered, by kind
    deliveries,     \* how many confirmations the rails have delivered
    confirmed,      \* the <<reference, status>> confirmations delivered
    merchants,      \* the sub-merchant rows a settlement run goes through
    scan,           \* the calculateSettlementsForDate call in flight
    calendar        \* the days gone by and the periods of the due dates so far

settleVars == <<subMerchant, transactions, refunds, disputes, reserves,
                settlements, items, today, run, stlNotes>>

payoutVars == <<batches, job, rail, payNotes, deliveries, confirmed>>

scanVars == <<merchants, scan, calendar>>

vars == <<settleVars, payouts, faults, impl, payoutVars, scanVars>>

Null == 0

\* ------------------------------------------------------------------ bounds
MaxDay == 2
MaxSettlements == 2
MaxFaults == 1

Days == 1..MaxDay
TxIds == {1, 2}
RefundIds == {1}
DisputeIds == {1}
Runners == {"cron", "manual"}

\* ---------------------------------------------------------------- helpers
RECURSIVE Sum(_, _)
Sum(f, S) ==
    IF S = {} THEN 0
    ELSE LET x == CHOOSE y \in S : TRUE IN f[x] + Sum(f, S \ {x})

\* `value || dflt` of the source on a number: 0 and absent both give dflt
OrElse(value, dflt) == IF value = Null THEN dflt ELSE value

\* reservePercentage is a decimal fraction with two places (0.05 is 5)
PctScale == 100

\* Decimal.toDecimalPlaces(2) under decimal.js's default rounding
\* (ROUND_HALF_UP: half away from zero) of the exact quotient num / den
RoundHalfDown(num, den) ==
    IF num >= 0 THEN (2 * num + den - 1) \div (2 * den)
    ELSE -((2 * (-num) + den - 1) \div (2 * den))

toDecimalPlaces2(num, den) ==
    IF num >= 0 THEN (2 * num + den) \div (2 * den)
    ELSE -((2 * (-num) + den) \div (2 * den))

\* --------------------------------------------------------- period and cycle
getSettlementCycleDays(cycle) ==
    CASE cycle \in {"D+0", "D+1", "D+2", "D+3"} -> 1
      [] cycle = "WEEKLY" -> 7
      [] cycle = "BIWEEKLY" -> 14
      [] cycle = "MONTHLY" -> 30
      [] OTHER -> 1

getSettlementPeriod(sm, settlementDate) ==
    [periodStart |-> settlementDate - getSettlementCycleDays(sm.settlementCycle) + 1,
     periodEnd   |-> settlementDate]

Between(d, lo, hi) == lo <= d /\ d <= hi

\* ------------------------------------------------------- calculateAmounts
ReserveIds == 1..Len(reserves)

\* the `settlementId: IsNull()` condition of the three ledger queries
MatchesAny(settlementId) == TRUE

IsNull(settlementId) == settlementId = Null

NetOmitsReleased(grossAmount, totalFees, reserveHeld, reserveReleased) ==
    grossAmount - totalFees - reserveHeld

NetAmountOf(grossAmount, totalFees, reserveHeld, reserveReleased) ==
    ((grossAmount - totalFees) - reserveHeld) + reserveReleased

calculateAmounts(periodStart, periodEnd) ==
    LET txs == {t \in TxIds :
                  /\ transactions[t].status = "captured"
                  /\ IsNull(transactions[t].settlementId)
                  /\ Between(transactions[t].capturedAt, periodStart, periodEnd)}
        rfs == {r \in RefundIds :
                  /\ refunds[r].status = "completed"
                  /\ IsNull(refunds[r].settlementId)
                  /\ Between(refunds[r].completedAt, periodStart, periodEnd)}
        dps == {d \in DisputeIds :
                  /\ disputes[d].status = "lost"
                  /\ IsNull(disputes[d].settlementId)
                  /\ Between(disputes[d].resolvedAt, periodStart, periodEnd)}
        rel == {v \in ReserveIds :
                  /\ reserves[v].status = "held"
                  /\ reserves[v].releaseDate <= periodEnd}
        grossSales      == Sum([t \in TxIds |-> transactions[t].amount], txs)
        processorFees   == Sum([t \in TxIds |-> OrElse(transactions[t].processorFee, 0)], txs)
        platformFees    == Sum([t \in TxIds |-> OrElse(transactions[t].platformFee, 0)], txs)
        grossRefunds    == Sum([r \in RefundIds |-> refunds[r].amount], rfs)
        refundFees      == Sum([r \in RefundIds |-> OrElse(refunds[r].refundFee, 0)], rfs)
        grossDisputes   == Sum([d \in DisputeIds |-> disputes[d].amount], dps)
        disputeFees     == Sum([d \in DisputeIds |-> OrElse(disputes[d].disputeFee, 0)], dps)
        reserveReleased == Sum([v \in ReserveIds |-> reserves[v].amount], rel)
        grossAmount     == (grossSales - grossRefunds) - grossDisputes
        totalFees       == ((processorFees + platformFees) + refundFees) + disputeFees
        reservePercentage == OrElse(subMerchant.reservePercentage, 0)
        reserveHeld     == toDecimalPlaces2(grossSales * reservePercentage, PctScale)
    IN  [periodStart |-> periodStart, periodEnd |-> periodEnd,
         grossSales |-> grossSales, grossRefunds |-> grossRefunds,
         grossDisputes |-> grossDisputes, grossAmount |-> grossAmount,
         processorFees |-> processorFees, platformFees |-> platformFees,
         refundFees |-> refundFees, disputeFees |-> disputeFees,
         totalFees |-> totalFees, reserveHeld |-> reserveHeld,
         reserveReleased |-> reserveReleased,
         netAmount |-> NetAmountOf(grossAmount, totalFees, reserveHeld, reserveReleased),
         transactionCount |-> Cardinality(txs), refundCount |-> Cardinality(rfs),
         disputeCount |-> Cardinality(dps),
         transactions |-> txs, refunds |-> rfs, disputes |-> dps,
         releasableReserves |-> rel]

NoCalc ==
    [periodStart |-> 0, periodEnd |-> 0, grossSales |-> 0, grossRefunds |-> 0,
     grossDisputes |-> 0, grossAmount |-> 0, processorFees |-> 0,
     platformFees |-> 0, refundFees |-> 0, disputeFees |-> 0, totalFees |-> 0,
     reserveHeld |-> 0, reserveReleased |-> 0, netAmount |-> 0,
     transactionCount |-> 0, refundCount |-> 0, disputeCount |-> 0,
     transactions |-> {}, refunds |-> {}, disputes |-> {},
     releasableReserves |-> {}]

\* ------------------------------------------------------------- payout rows
\* "payfac" is src/payfac/payout/payout.service.ts, "services" the
\* PayoutService beside the settlement engine
Impls == {"payfac", "services"}

\* default of Payout.maxRetries
DefaultMaxRetries == 3

\* PAYOUT_AUTO_APPROVE_THRESHOLD default, in piastres
PayoutApprovalThreshold == 5000000

requiresApproval(amount) == amount > PayoutApprovalThreshold

\* PayoutService.calculatePayoutFee (services), in piastres
calculatePayoutFee(method, amount) ==
    CASE method = "instapay" -> 500
      [] method = "bank_transfer" -> IF amount > 5000000 THEN 2500 ELSE 1000
      [] method = "wallet" -> 300
      [] OTHER -> 1000

\* dto: [settlementId, amount, fee, method, destination]
createPayout(svc, dto) ==
    IF svc = "payfac"
    THEN [settlementId |-> Null,
          amount |-> dto.amount, fee |-> dto.fee,
          netAmount |-> dto.amount - dto.fee,
          payoutMethod |-> dto.method, destination |-> dto.destination,
          status |-> IF requiresApproval(dto.amount) THEN "pending" ELSE "approved",
          batchId |-> Null, processorReference |-> Null,
          retryCount |-> 0, maxRetries |-> DefaultMaxRetries]
    ELSE [settlementId |-> dto.settlementId,
          amount |-> dto.amount,
          fee |-> OrElse(dto.fee, calculatePayoutFee(dto.method, dto.amount)),
          netAmount |-> dto.amount - OrElse(dto.fee, 0),
          payoutMethod |-> dto.method, destination |-> dto.destination,
          status |-> "pending",
          batchId |-> Null, processorReference |-> Null,
          retryCount |-> 0, maxRetries |-> DefaultMaxRetries]

\* ------------------------------------------------------- payout pipeline
PayoutIds == {1, 2}
Jobs == {"scheduled", "retry"}
NoteKinds == {"sent", "completed", "success", "failed", "alert"}

\* what a call of a rail's transfer capability can come to
RailOutcomes == {"accepted", "declined", "timeout"}

\* a payout entity held in memory by a run: the row as it was loaded
NoPayout == [id |-> Null]

IdleJob ==
    [pc |-> "idle", groups |-> <<>>, queue |-> <<>>, cur |-> NoPayout,
     batch |-> Null, successCount |-> 0, failedCount |-> 0]

NoNotes == [k \in NoteKinds |-> 0]

NoPayoutWork ==
    /\ batches = <<>>
    /\ job = [j \in Jobs |-> IdleJob]
    /\ rail = [p \in PayoutIds |-> 0]
    /\ payNotes = [p \in PayoutIds |-> NoNotes]
    /\ deliveries = 0
    /\ confirmed = {}

RECURSIVE Ascending(_)
Ascending(S) ==
    IF S = {} THEN <<>>
    ELSE LET x == CHOOSE y \in S : \A z \in S : y <= z
         IN  <<x>> \o Ascending(S \ {x})

\* payoutRepo.find: the matching rows as entities, in id order
find(ids) ==
    LET o == Ascending(ids)
    IN  [k \in DOMAIN o |-> [id |-> o[k], row |-> payouts[o[k]]]]

OfMethod(loaded, method) ==
    SelectSeq(loaded, LAMBDA e : e.row.payoutMethod = method)

\* payfac groupPayoutsByMethod: Object.entries yields the methods in the
\* order of their first payout
RECURSIVE groupPayoutsByMethod(_)
groupPayoutsByMethod(loaded) ==
    IF loaded = <<>> THEN <<>>
    ELSE LET method == Head(loaded).row.payoutMethod
         IN  <<[method |-> method, payouts |-> OfMethod(loaded, method)]>>
             \o groupPayoutsByMethod(
                    SelectSeq(loaded, LAMBDA e : e.row.payoutMethod # method))

\* services groupByMethod as processScheduledPayouts walks it: instapay,
\* bank transfers, wallets, each only when it has payouts
groupByMethod(loaded) ==
    LET group(method) ==
            IF OfMethod(loaded, method) = <<>> THEN <<>>
            ELSE <<[method |-> method, payouts |-> OfMethod(loaded, method)]>>
    IN  group("instapay") \o group("bank_transfer") \o group("wallet")

\* the reference a rail returns for a transfer it accepted
RefBase == 10
NewReference(id) == RefBase * id + rail[id] + 1

\* what the attempt of processPayout / processSinglePayout comes to, given
\* the rail's answer: "accepted", "declined" (success false) or "threw"
callsRail(svc, row) ==
    IF svc = "payfac" THEN row.payoutMethod # "wallet"
    ELSE ~(row.payoutMethod = "instapay" /\ row.destination.ipa = Null)

attempt(svc, row, outcome) ==
    IF svc = "payfac"
    THEN IF callsRail(svc, row) /\ outcome = "accepted"
         THEN "accepted" ELSE "declined"
    ELSE IF ~callsRail(svc, row) THEN "threw"
         ELSE IF outcome = "timeout" THEN "threw" ELSE outcome


\* ------------------------------------------------- the daily settlement run
\* A calendar date as shouldSettleToday reads it: getDay() (0 = Sunday) and
\* getDate().
DaysOfWeek == 0 .. 6
DaysOfMonth == 1 .. 31
Dates == [dayOfWeek : DaysOfWeek, dayOfMonth : DaysOfMonth]

Cycles == {"D+0", "D+1", "D+2", "D+3", "WEEKLY", "BIWEEKLY", "MONTHLY"}

settlesEveryWeek(sm, date) ==
    CASE sm.settlementCycle \in {"D+0", "D+1", "D+2", "D+3"} -> TRUE
      [] sm.settlementCycle \in {"WEEKLY", "BIWEEKLY"} ->
            date.dayOfWeek = OrElse(sm.settlementDayOfWeek, 0)
      [] sm.settlementCycle = "MONTHLY" ->
            date.dayOfMonth = OrElse(sm.settlementDayOfMonth, 1)
      [] OTHER -> TRUE

shouldSettleToday(sm, date) ==
    CASE sm.settlementCycle \in {"D+0", "D+1", "D+2", "D+3"} -> TRUE
      [] sm.settlementCycle = "WEEKLY" ->
            date.dayOfWeek = OrElse(sm.settlementDayOfWeek, 0)
      [] sm.settlementCycle = "BIWEEKLY" ->
            /\ date.dayOfWeek = OrElse(sm.settlementDayOfWeek, 0)
            /\ (date.dayOfMonth \div 7) % 2 = 0
      [] sm.settlementCycle = "MONTHLY" ->
            date.dayOfMonth = OrElse(sm.settlementDayOfMonth, 1)
      [] OTHER -> TRUE

\* What calculateSettlementForMerchant hands back to the loop that called it:
\* a Settlement, null (nothing to settle), or an error.
MerchantOutcomes == {"settled", "null", "threw"}

skipsRestOnError(queue, outcome) == IF outcome = "threw" THEN <<>> ELSE Tail(queue)

\* The loop's try/catch: an error is logged and the loop goes on to the next
\* sub-merchant.
afterMerchant(queue, outcome) == Tail(queue)

IdleScan ==
    [pc |-> "idle", date |-> [dayOfWeek |-> 0, dayOfMonth |-> 1], queue |-> <<>>,
     evaluated |-> {}, due |-> {}, threw |-> {}, settlements |-> <<>>,
     attempts |-> <<>>]

\* a period not yet computed
NoPeriod == [periodStart |-> Null, periodEnd |-> Null]

NoCalendar ==
    [day |-> 1, dayOfWeek |-> 0, dayOfMonth |-> 1, months |-> <<>>,
     previous |-> NoPeriod, latest |-> NoPeriod]

NoScan ==
    /\ merchants = <<>>
    /\ scan = IdleScan
    /\ calendar = NoCalendar

\* ------------------------------------------------------ settlement engine
\* SettlementEngineService.calculatePayoutFee, in piastres
enginePayoutFee(method) ==
    CASE method = "bank_transfer" -> 1000
      [] method = "instapay" -> 500
      [] method = "wallet" -> 300
      [] OTHER -> 1000

getPayoutDestination(sm) ==
    CASE sm.payoutMethod = "bank_transfer" ->
             [accountNumber |-> sm.bankAccountNumber, iban |-> Null,
              ipa |-> Null, number |-> Null]
      [] sm.payoutMethod = "instapay" ->
             [accountNumber |-> Null, iban |-> Null,
              ipa |-> sm.instapayIpa, number |-> Null]
      [] sm.payoutMethod = "wallet" ->
             [accountNumber |-> Null, iban |-> Null,
              ipa |-> Null, number |-> sm.vodafoneCashNumber]

AutoApproveThreshold == 5000000
RiskCeiling == 70

shouldAutoApprove(sm, netAmount) ==
    IF sm.riskScore # Null /\ sm.riskScore > RiskCeiling
    THEN FALSE
    ELSE netAmount <= AutoApproveThreshold

\* minimumPayoutAmount || 100, in piastres
DefaultMinimumPayout == 10000

belowDefaultOnly(sm, netAmount) == netAmount < DefaultMinimumPayout

belowMinimum(sm, netAmount) ==
    netAmount < OrElse(sm.minimumPayoutAmount, DefaultMinimumPayout)

noActivity(c) ==
    /\ c.transactionCount = 0
    /\ c.refundCount = 0
    /\ c.disputeCount = 0
    /\ c.releasableReserves = {}

\* subMerchant.reserveDays || 90
DefaultReserveDays == 90

\* Settlement row of createSettlement (Decimal.toNumber() of a 2-place
\* amount below 2^53 piastres is that amount)
createSettlement(settlementDate, c) ==
    [settlementDate |-> settlementDate,
     periodStart |-> c.periodStart, periodEnd |-> c.periodEnd,
     grossSales |-> c.grossSales, grossRefunds |-> c.grossRefunds,
     grossDisputes |-> c.grossDisputes, grossAmount |-> c.grossAmount,
     processorFees |-> c.processorFees, platformFees |-> c.platformFees,
     refundFees |-> c.refundFees, disputeFees |-> c.disputeFees,
     totalFees |-> c.totalFees, reserveHeld |-> c.reserveHeld,
     reserveReleased |-> c.reserveReleased, netAmount |-> c.netAmount,
     transactionCount |-> c.transactionCount, refundCount |-> c.refundCount,
     disputeCount |-> c.disputeCount,
     status |-> "calculated", approvedBy |-> "none", payoutId |-> Null,
     adjustmentNotes |-> "none"]

createSettlementItems(sid, c) ==
    {[settlementId |-> sid, itemType |-> "transaction", referenceId |-> t] :
        t \in c.transactions}
    \cup {[settlementId |-> sid, itemType |-> "refund", referenceId |-> r] :
        r \in c.refunds}
    \cup {[settlementId |-> sid, itemType |-> "dispute", referenceId |-> d] :
        d \in c.disputes}
    \cup (IF c.reserveHeld > 0
          THEN {[settlementId |-> sid, itemType |-> "reserve", referenceId |-> Null]}
          ELSE {})
    \cup {[settlementId |-> sid, itemType |-> "reserve", referenceId |-> v] :
        v \in c.releasableReserves}

\* repo.update({id: In(ids)}, {settlementId})
markSettled(rows, ids, sid) ==
    [k \in DOMAIN rows |->
        IF k \in ids THEN [rows[k] EXCEPT !.settlementId = sid] ELSE rows[k]]

\* the payout request createPayoutForSettlement builds
payoutDtoFor(sid, stl) ==
    [settlementId |-> sid, amount |-> stl.netAmount,
     fee |-> enginePayoutFee(subMerchant.payoutMethod),
     method |-> subMerchant.payoutMethod,
     destination |-> getPayoutDestination(subMerchant)]

\* the steps of calculateSettlementForMerchant after the early returns, in
\* order; a run fails at one of them (the step throws, nothing of it or of
\* the later steps is done) or at none
CommitSteps ==
    <<"create", "items", "markTx", "markRefunds", "markDisputes",
      "hold", "release", "approve", "payout", "notify">>

StepNo(name) == CHOOSE k \in DOMAIN CommitSteps : CommitSteps[k] = name
NoFailure == Len(CommitSteps) + 1
FailPoints == 1..NoFailure

IdleRun == [pc |-> "idle", date |-> 0, calc |-> NoCalc]

\* ------------------------------------------------------------ operations
\* calculateSettlementForMerchant up to its last read: period and amounts
Calculate(r, settlementDate) ==
    /\ run[r].pc = "idle"
    /\ Len(settlements) + Cardinality({q \in Runners : run[q].pc = "computed"})
          < MaxSettlements
    /\ LET p == getSettlementPeriod(subMerchant, settlementDate)
           c == calculateAmounts(p.periodStart, p.periodEnd)
       IN  run' = [run EXCEPT ![r] =
                     [pc |-> "computed", date |-> settlementDate, calc |-> c]]
    /\ UNCHANGED <<scanVars, subMerchant, transactions, refunds, disputes, reserves,
                   settlements, items, payouts, today, stlNotes, faults, impl,
                   payoutVars>>

\* runDailySettlement: the closed business day
CronCalculate == Calculate("cron", today - 1)

\* calculateSettlementsForDate called with any date
ManualCalculate == \E d \in Days : Calculate("manual", d)

\* the two early returns of calculateSettlementForMerchant
skips(c) == noActivity(c) \/ belowMinimum(subMerchant, c.netAmount)

ReturnNull(r) ==
    /\ run[r].pc = "computed"
    /\ skips(run[r].calc)
    /\ run' = [run EXCEPT ![r] = IdleRun]
    /\ UNCHANGED <<scanVars, subMerchant, transactions, refunds, disputes, reserves,
                   settlements, items, payouts, today, stlNotes, faults, impl,
                   payoutVars>>

SkipRun == \E r \in Runners : ReturnNull(r)

\* the writes of calculateSettlementForMerchant, failing at step failAt
Commit(r, failAt) ==
    LET c    == run[r].calc
        sid  == Len(settlements) + 1
        done(name) == failAt > StepNo(name)
        auto == shouldAutoApprove(subMerchant, c.netAmount)
        row  == createSettlement(run[r].date, c)
        pid  == Len(payouts) + 1
        approved == [row EXCEPT !.status = "approved", !.approvedBy = "system"]
        paid == [approved EXCEPT !.payoutId = pid]
    IN
    /\ run[r].pc = "computed"
    /\ ~skips(c)
    /\ settlements' =
          IF ~done("create") THEN settlements
          ELSE IF auto /\ done("payout") THEN Append(settlements, paid)
          ELSE IF auto /\ done("approve") THEN Append(settlements, approved)
          ELSE Append(settlements, row)
    /\ items' = IF done("items") THEN items \cup createSettlementItems(sid, c) ELSE items
    /\ transactions' = IF done("markTx")
                       THEN markSettled(transactions, c.transactions, sid)
                       ELSE transactions
    /\ refunds' = IF done("markRefunds")
                  THEN markSettled(refunds, c.refunds, sid) ELSE refunds
    /\ disputes' = IF done("markDisputes")
                   THEN markSettled(disputes, c.disputes, sid) ELSE disputes
    /\ reserves' =
          LET held == IF done("hold") /\ c.reserveHeld > 0
                      THEN Append(reserves,
                                  [settlementId |-> sid, amount |-> c.reserveHeld,
                                   releaseDate |-> today +
                                       OrElse(subMerchant.reserveDays, DefaultReserveDays),
                                   status |-> "held"])
                      ELSE reserves
          IN  IF done("release")
              THEN [v \in DOMAIN held |->
                      IF v \in c.releasableReserves
                      THEN [held[v] EXCEPT !.status = "released"] ELSE held[v]]
              ELSE held
    /\ payouts' = IF auto /\ done("payout")
                  THEN Append(payouts, createPayout(impl, payoutDtoFor(sid, approved)))
                  ELSE payouts
    /\ stlNotes' = IF done("notify") THEN stlNotes \cup {sid} ELSE stlNotes
    /\ run' = [run EXCEPT ![r] = IdleRun]
    /\ faults' = IF failAt = NoFailure THEN faults ELSE faults + 1
    /\ failAt # NoFailure => faults < MaxFaults
    /\ UNCHANGED <<scanVars, subMerchant, today, impl, payoutVars>>

CommitRun == \E r \in Runners, f \in FailPoints : Commit(r, f)

\* approveSettlement called by an operator; createPayoutForSettlement may throw
approveSettlement(sid, approvedBy, payoutFails) ==
    /\ sid \in DOMAIN settlements
    /\ IF settlements[sid].status # "calculated"
       THEN UNCHANGED <<settlements, payouts>>
       ELSE LET pid == Len(payouts) + 1
                approved == [settlements[sid] EXCEPT
                               !.status = "approved", !.approvedBy = approvedBy]
            IN  IF payoutFails
                THEN /\ settlements' = [settlements EXCEPT ![sid] = approved]
                     /\ UNCHANGED payouts
                ELSE /\ settlements' = [settlements EXCEPT ![sid] =
                                           [approved EXCEPT !.payoutId = pid]]
                     /\ payouts' = Append(payouts,
                                      createPayout(impl, payoutDtoFor(sid, approved)))
    /\ faults' = IF payoutFails /\ settlements[sid].status = "calculated"
                  THEN faults + 1 ELSE faults
    /\ payoutFails => faults < MaxFaults
    /\ UNCHANGED <<scanVars, subMerchant, transactions, refunds, disputes, reserves,
                   items, today, run, stlNotes, impl, payoutVars>>

ManualApprove ==
    \E sid \in DOMAIN settlements, f \in BOOLEAN :
        approveSettlement(sid, "operator", f)

rejectAndRevert(sid) ==
    /\ sid \in DOMAIN settlements
    /\ transactions' = [t \in TxIds |->
          IF transactions[t].settlementId = sid
          THEN [transactions[t] EXCEPT !.settlementId = Null] ELSE transactions[t]]
    /\ refunds' = [f \in RefundIds |->
          IF refunds[f].settlementId = sid
          THEN [refunds[f] EXCEPT !.settlementId = Null] ELSE refunds[f]]
    /\ disputes' = [d \in DisputeIds |->
          IF disputes[d].settlementId = sid
          THEN [disputes[d] EXCEPT !.settlementId = Null] ELSE disputes[d]]
    /\ settlements' = [settlements EXCEPT
                          ![sid].status = "on_hold",
                          ![sid].adjustmentNotes = "reason"]
    /\ UNCHANGED <<scanVars, subMerchant, reserves, items, payouts, today, run,
                   stlNotes, faults, impl, payoutVars>>

rejectSettlement(sid) ==
    /\ sid \in DOMAIN settlements
    /\ transactions' = [t \in TxIds |->
          IF transactions[t].settlementId = sid
          THEN [transactions[t] EXCEPT !.settlementId = Null] ELSE transactions[t]]
    /\ refunds' = [f \in RefundIds |->
          IF refunds[f].settlementId = sid
          THEN [refunds[f] EXCEPT !.settlementId = Null] ELSE refunds[f]]
    /\ settlements' = [settlements EXCEPT
                          ![sid].status = "on_hold",
                          ![sid].adjustmentNotes = "reason"]
    /\ UNCHANGED <<scanVars, subMerchant, disputes, reserves, items, payouts, today, run,
                   stlNotes, faults, impl, payoutVars>>

ManualReject == \E sid \in DOMAIN settlements : rejectSettlement(sid)

Tick ==
    /\ today < MaxDay
    /\ today' = today + 1
    /\ UNCHANGED <<scanVars, subMerchant, transactions, refunds, disputes, reserves,
                   settlements, items, payouts, run, stlNotes, faults, impl,
                   payoutVars>>

\* ------------------------------------------------------ the ledger at start
SubMerchants ==
    {[settlementCycle |-> cyc, reservePercentage |-> pct, reserveDays |-> 1,
      minimumPayoutAmount |-> lim[1], riskScore |-> lim[2],
      payoutMethod |-> "instapay", instapayIpa |-> 1,
      bankAccountNumber |-> Null, vodafoneCashNumber |-> Null] :
        cyc \in {"D+1", "WEEKLY"}, pct \in {Null, 5},
        lim \in {<<Null, Null>>, <<20000, 80>>}}

TxRow(amount, processorFee, capturedAt) ==
    [amount |-> amount, processorFee |-> processorFee, platformFee |-> 150,
     capturedAt |-> capturedAt, status |-> "captured", settlementId |-> Null]

InitSettle ==
    /\ subMerchant \in SubMerchants
    /\ transactions \in {[t \in TxIds |-> IF t = 1 THEN TxRow(a, 300, 1)
                                                   ELSE TxRow(7050, Null, d)] :
            a \in {12010, 6000000}, d \in Days}
    /\ refunds = [f \in RefundIds |->
            [amount |-> 2000, refundFee |-> 100, completedAt |-> 1,
             status |-> "completed", settlementId |-> Null]]
    /\ disputes = [d \in DisputeIds |->
            [amount |-> 5000, disputeFee |-> 1500, resolvedAt |-> 2,
             status |-> "lost", settlementId |-> Null]]
    /\ reserves = <<>>
    /\ settlements = <<>>
    /\ items = {}
    /\ payouts = <<>>
    /\ today = 1
    /\ run = [r \in Runners |-> IdleRun]
    /\ stlNotes = {}
    /\ faults = 0
    /\ impl \in Impls
    /\ NoPayoutWork
    /\ NoScan

NextSettle ==
    \/ CronCalculate
    \/ ManualCalculate
    \/ SkipRun
    \/ CommitRun
    \/ ManualApprove
    \/ ManualReject
    \/ Tick

SpecSettle == InitSettle /\ [][NextSettle]_vars

\* the same engine when calculateSettlementForMerchant is never entered
\* while another call of it is in flight
NoRunInFlight == \A q \in Runners : run[q].pc = "idle"

NextSeq ==
    \/ NoRunInFlight /\ CronCalculate
    \/ NoRunInFlight /\ ManualCalculate
    \/ SkipRun
    \/ CommitRun
    \/ ManualApprove
    \/ ManualReject
    \/ Tick

SpecSeq == InitSettle /\ [][NextSeq]_vars

\* =========================================================== payout pipeline
MaxBatches == 3
MaxDeliveries == 2

Bump(notes, kinds) ==
    [k \in NoteKinds |-> IF k \in kinds THEN notes[k] + 1 ELSE notes[k]]

\* payfac processPayout from the rail's answer on: the row the payout is
\* left with in the database, the notifications delivered, whether the
\* call threw, its result.  sinkDown: the notification service throws
processPayout(id, cur, outcome, sinkDown) ==
    LET att  == attempt("payfac", cur, outcome)
        sent == [cur EXCEPT !.status = "sent",
                            !.processorReference = NewReference(id)]
        held == IF att = "accepted" THEN sent ELSE cur
        n    == held.retryCount + 1
    IN  IF att = "accepted" /\ ~sinkDown
        THEN [row |-> sent, notes |-> {"sent"}, threw |-> FALSE, success |-> TRUE]
        ELSE IF n >= held.maxRetries
        THEN IF sinkDown
             THEN [row |-> held, notes |-> {}, threw |-> TRUE, success |-> FALSE]
             ELSE [row |-> [held EXCEPT !.retryCount = n, !.status = "failed"],
                   notes |-> {"alert"}, threw |-> FALSE, success |-> FALSE]
        ELSE [row |-> [held EXCEPT !.retryCount = n, !.status = "approved"],
              notes |-> {}, threw |-> FALSE, success |-> FALSE]

\* services processSinglePayout from the rail's answer on
processSinglePayout(id, cur, outcome, sinkDown) ==
    LET att    == attempt("services", cur, outcome)
        done   == [cur EXCEPT !.status = "completed",
                              !.processorReference = NewReference(id)]
        failed == [cur EXCEPT !.status = "failed", !.retryCount = @ + 1]
        caught(row) == [row EXCEPT !.status = "failed", !.retryCount = @ + 1]
    IN  CASE att = "accepted" ->
                 IF sinkDown
                 THEN [row |-> caught(done), notes |-> {}, threw |-> FALSE,
                       success |-> FALSE]
                 ELSE [row |-> done, notes |-> {"success"}, threw |-> FALSE,
                       success |-> TRUE]
          [] att = "declined" ->
                 IF failed.retryCount >= failed.maxRetries
                 THEN IF sinkDown
                      THEN [row |-> caught(failed), notes |-> {}, threw |-> FALSE,
                            success |-> FALSE]
                      ELSE [row |-> failed, notes |-> {"failed"}, threw |-> FALSE,
                            success |-> FALSE]
                 ELSE [row |-> failed, notes |-> {}, threw |-> FALSE,
                       success |-> FALSE]
          [] att = "threw" ->
                 [row |-> caught(cur), notes |-> {}, threw |-> FALSE,
                  success |-> FALSE]

\* whether the call gets to the notification service at all
notifies(svc, cur, outcome) ==
    LET att == attempt(svc, cur, outcome)
    IN  IF svc = "payfac"
        THEN att = "accepted" \/ cur.retryCount + 1 >= cur.maxRetries
        ELSE \/ att = "accepted"
             \/ att = "declined" /\ cur.retryCount + 1 >= cur.maxRetries

dispatched(svc, id, cur, outcome, sinkDown) ==
    IF svc = "payfac" THEN processPayout(id, cur, outcome, sinkDown)
    ELSE processSinglePayout(id, cur, outcome, sinkDown)

\* processScheduledPayouts up to the grouping of the payouts it found
processScheduledPayouts ==
    LET due == {p \in PayoutIds :
                  payouts[p].status = IF impl = "payfac" THEN "approved"
                                      ELSE "pending"}
        groups == IF impl = "payfac" THEN groupPayoutsByMethod(find(due))
                  ELSE groupByMethod(find(due))
    IN  /\ job["scheduled"].pc = "idle"
        /\ due # {}
        /\ Len(batches) + Len(groups) <= MaxBatches
        /\ job' = [job EXCEPT !["scheduled"] =
                      [IdleJob EXCEPT !.pc = "loop", !.groups = groups]]
        /\ UNCHANGED <<scanVars, settleVars, payouts, faults, impl, batches, rail,
                       payNotes, deliveries, confirmed>>

\* services retryFailedPayouts up to the filter of the payouts it found
retryFailedPayouts ==
    LET retriable == {p \in PayoutIds :
                        /\ payouts[p].status = "failed"
                        /\ payouts[p].retryCount < payouts[p].maxRetries}
    IN  /\ impl = "services"
        /\ job["retry"].pc = "idle"
        /\ retriable # {}
        /\ job' = [job EXCEPT !["retry"] =
                      [IdleJob EXCEPT !.pc = "loop", !.queue = find(retriable)]]
        /\ UNCHANGED <<scanVars, settleVars, payouts, faults, impl, batches, rail,
                       payNotes, deliveries, confirmed>>

batchStatus(successCount, failedCount) ==
    IF failedCount = 0 THEN "completed"
    ELSE IF successCount = 0 THEN "failed" ELSE "partially_completed"

newBatch(group) ==
    [payoutMethod |-> group.method, payoutCount |-> Len(group.payouts),
     successfulCount |-> 0, failedCount |-> 0, status |-> "processing"]

Members(queue) == {queue[k].id : k \in DOMAIN queue}

\* the end of one method's payouts and the start of the next method's:
\* payfac processPayoutBatch closes its batch, and the next
\* processPayoutBatch (payfac) or processBankTransferBatch (services)
\* creates a batch and links its payouts
NextGroup(j) ==
    LET J      == job[j]
        closed == IF J.batch = Null THEN batches
                  ELSE [batches EXCEPT ![J.batch] =
                          [@ EXCEPT !.successfulCount = J.successCount,
                                    !.failedCount = J.failedCount,
                                    !.status = batchStatus(J.successCount,
                                                           J.failedCount)]]
        bid    == Len(batches) + 1
    IN  /\ J.pc = "loop"
        /\ J.queue = <<>>
        /\ IF J.groups = <<>>
           THEN /\ batches' = closed
                /\ job' = [job EXCEPT ![j] = IdleJob]
                /\ UNCHANGED payouts
           ELSE LET g == Head(J.groups)
                    batched == impl = "payfac" \/ g.method = "bank_transfer"
                IN  /\ batches' = IF batched THEN Append(closed, newBatch(g))
                                  ELSE closed
                    /\ payouts' = IF batched
                                  THEN [p \in DOMAIN payouts |->
                                          IF p \in Members(g.payouts)
                                          THEN [payouts[p] EXCEPT !.batchId = bid]
                                          ELSE payouts[p]]
                                  ELSE payouts
                    /\ job' = [job EXCEPT ![j] =
                                 [pc |-> IF impl = "services" /\ batched
                                         THEN "submit" ELSE "loop",
                                  groups |-> Tail(J.groups),
                                  queue |-> g.payouts, cur |-> NoPayout,
                                  batch |-> IF batched THEN bid ELSE Null,
                                  successCount |-> 0, failedCount |-> 0]]
        /\ UNCHANGED <<scanVars, settleVars, faults, impl, rail, payNotes, deliveries,
                       confirmed>>

\* a run turns to its next payout: payfac processPayout re-reads the row and
\* refuses one that is not approved; services processSinglePayout works on
\* the entity the run loaded.  Both save it as processing
BeginPayout(j) ==
    LET J  == job[j]
        e  == Head(J.queue)
        row == IF impl = "payfac" THEN payouts[e.id] ELSE e.row
        processing == [row EXCEPT !.status = "processing"]
    IN  /\ J.pc = "loop"
        /\ J.queue # <<>>
        /\ IF impl = "payfac" /\ row.status # "approved"
           THEN /\ job' = [job EXCEPT ![j] =
                             [J EXCEPT !.queue = Tail(J.queue),
                                       !.failedCount = J.failedCount + 1]]
                /\ UNCHANGED payouts
           ELSE /\ payouts' = [payouts EXCEPT ![e.id] = processing]
                /\ job' = [job EXCEPT ![j] =
                             [J EXCEPT !.pc = "sending", !.queue = Tail(J.queue),
                                       !.cur = [id |-> e.id, row |-> processing]]]
        /\ UNCHANGED <<scanVars, settleVars, faults, impl, batches, rail, payNotes,
                       deliveries, confirmed>>

\* the rail answers and the run records the answer
FinishPayout(j, outcome, sinkDown) ==
    LET J   == job[j]
        id  == J.cur.id
        res == dispatched(impl, id, J.cur.row, outcome, sinkDown)
    IN  /\ J.pc = "sending"
        /\ callsRail(impl, J.cur.row) \/ outcome = "declined"
        /\ sinkDown => notifies(impl, J.cur.row, outcome) /\ faults < MaxFaults
        /\ payouts' = [payouts EXCEPT ![id] = res.row]
        /\ rail' = IF attempt(impl, J.cur.row, outcome) = "accepted"
                   THEN [rail EXCEPT ![id] = @ + 1] ELSE rail
        /\ payNotes' = [payNotes EXCEPT ![id] = Bump(@, res.notes)]
        /\ faults' = IF sinkDown THEN faults + 1 ELSE faults
        /\ job' = IF res.threw THEN [job EXCEPT ![j] = IdleJob]
                  ELSE [job EXCEPT ![j] =
                          [J EXCEPT !.pc = "loop", !.cur = NoPayout,
                                    !.successCount =
                                        IF res.success THEN @ + 1 ELSE @,
                                    !.failedCount =
                                        IF res.success THEN @ ELSE @ + 1]]
        /\ UNCHANGED <<scanVars, settleVars, impl, batches, deliveries, confirmed>>

\* services processBankTransferBatch from the bank's answer on
SubmitBatch(j, outcome) ==
    LET J == job[j]
        status == IF outcome = "accepted" THEN "processing" ELSE "failed"
        stale(p) == (CHOOSE k \in DOMAIN J.queue : J.queue[k].id = p)
    IN  /\ J.pc = "submit"
        /\ batches' = [batches EXCEPT ![J.batch].status = status]
        /\ payouts' =
              CASE outcome = "accepted" ->
                     [p \in DOMAIN payouts |->
                        IF payouts[p].batchId = J.batch
                        THEN [payouts[p] EXCEPT !.status = "sent"]
                        ELSE payouts[p]]
                [] outcome = "declined" -> payouts
                [] outcome = "timeout" ->
                     [p \in DOMAIN payouts |->
                        IF p \in Members(J.queue)
                        THEN [J.queue[stale(p)].row EXCEPT
                                 !.status = "failed", !.retryCount = @ + 1]
                        ELSE payouts[p]]
        /\ rail' = IF outcome = "accepted"
                   THEN [p \in PayoutIds |->
                           IF p \in Members(J.queue) THEN rail[p] + 1 ELSE rail[p]]
                   ELSE rail
        /\ job' = [job EXCEPT ![j] =
                     [J EXCEPT !.pc = "loop", !.queue = <<>>, !.batch = Null]]
        /\ UNCHANGED <<scanVars, settleVars, faults, impl, payNotes, deliveries,
                       confirmed>>

\* payfac approvePayout
approvePayout(id) ==
    /\ impl = "payfac"
    /\ payouts[id].status = "pending"
    /\ payouts' = [payouts EXCEPT ![id].status = "approved"]
    /\ UNCHANGED <<scanVars, settleVars, faults, impl, payoutVars>>

\* services cancelPayout
cancelPayout(id) ==
    /\ impl = "services"
    /\ payouts[id].status = "pending"
    /\ payouts' = [payouts EXCEPT ![id].status = "cancelled"]
    /\ UNCHANGED <<scanVars, settleVars, faults, impl, payoutVars>>

\* payfac confirmPayoutCompletion on the payout found by the reference:
\* the row saved and the notifications delivered
confirmPayoutCompletion(row, status, sinkDown) ==
    IF sinkDown THEN [row |-> row, notes |-> {}]
    ELSE IF status = "completed"
    THEN [row |-> [row EXCEPT !.status = "completed"], notes |-> {"completed"}]
    ELSE [row |-> [row EXCEPT !.status = "failed"], notes |-> {"alert"}]

\* services handlePayoutWebhook on the payout found by the reference
handlePayoutWebhook(row, status, sinkDown) ==
    LET failed == [row EXCEPT !.status = "failed", !.retryCount = @ + 1]
    IN  CASE status \in {"completed", "success"} ->
                 IF sinkDown THEN [row |-> row, notes |-> {}]
                 ELSE [row |-> [row EXCEPT !.status = "completed"],
                       notes |-> {"success"}]
          [] status \in {"failed", "rejected"} ->
                 IF failed.retryCount >= failed.maxRetries
                 THEN IF sinkDown THEN [row |-> row, notes |-> {}]
                      ELSE [row |-> failed, notes |-> {"failed"}]
                 ELSE [row |-> failed, notes |-> {}]
          [] status = "returned" ->
                 IF sinkDown THEN [row |-> row, notes |-> {}]
                 ELSE [row |-> [row EXCEPT !.status = "returned"],
                       notes |-> {"failed"}]
          [] OTHER -> [row |-> row, notes |-> {}]

ConfirmStatuses(svc) ==
    IF svc = "payfac" THEN {"completed", "failed"}
    ELSE {"completed", "failed", "returned"}

\* a rail delivers the confirmation <<reference, status>>
Confirm(reference, status, sinkDown) ==
    /\ deliveries < MaxDeliveries
    /\ reference # Null
    /\ status \in ConfirmStatuses(impl)
    /\ \E id \in PayoutIds : payouts[id].processorReference = reference
    /\ LET id  == CHOOSE p \in PayoutIds : payouts[p].processorReference = reference
           res == IF impl = "payfac"
                  THEN confirmPayoutCompletion(payouts[id], status, sinkDown)
                  ELSE handlePayoutWebhook(payouts[id], status, sinkDown)
           reaches == \/ impl = "payfac"
                      \/ status \in {"completed", "returned"}
                      \/ payouts[id].retryCount + 1 >= payouts[id].maxRetries
       IN  /\ sinkDown => reaches /\ faults < MaxFaults
           /\ payouts' = [payouts EXCEPT ![id] = res.row]
           /\ payNotes' = [payNotes EXCEPT ![id] = Bump(@, res.notes)]
    /\ faults' = IF sinkDown THEN faults + 1 ELSE faults
    /\ deliveries' = deliveries + 1
    /\ confirmed' = confirmed \cup {<<reference, status>>}
    /\ UNCHANGED <<scanVars, settleVars, impl, batches, job, rail>>

References == {payouts[p].processorReference : p \in PayoutIds}
AllStatuses == {"completed", "failed", "returned"}

\* ------------------------------------------------------ the payouts at start
Destinations(method) ==
    CASE method = "instapay" ->
             {[accountNumber |-> Null, iban |-> Null, ipa |-> i, number |-> Null] :
                 i \in {1, Null}}
      [] method = "bank_transfer" ->
             {[accountNumber |-> 1, iban |-> Null, ipa |-> Null, number |-> Null]}
      [] method = "wallet" ->
             {[accountNumber |-> Null, iban |-> Null, ipa |-> Null, number |-> 1]}

\* createPayout requests: amount, method and a destination of the method
PayoutRequests(amounts, methods) ==
    UNION {{[settlementId |-> Null, amount |-> a, fee |-> 500, method |-> m,
             destination |-> d] : a \in amounts, d \in Destinations(m)} :
           m \in methods}

InitPayout ==
    /\ subMerchant \in {sm \in SubMerchants :
                           sm.settlementCycle = "D+1" /\ sm.riskScore = Null
                           /\ sm.reservePercentage = Null}
    /\ transactions = [t \in TxIds |-> TxRow(12010, 300, 1)]
    /\ refunds = [f \in RefundIds |->
            [amount |-> 2000, refundFee |-> 100, completedAt |-> 1,
             status |-> "completed", settlementId |-> Null]]
    /\ disputes = [d \in DisputeIds |->
            [amount |-> 5000, disputeFee |-> 1500, resolvedAt |-> 2,
             status |-> "lost", settlementId |-> Null]]
    /\ reserves = <<>>
    /\ settlements = <<>>
    /\ items = {}
    /\ today = 1
    /\ run = [r \in Runners |-> IdleRun]
    /\ stlNotes = {}
    /\ faults = 0
    /\ impl \in Impls
    /\ \E d1 \in PayoutRequests({100000}, {"instapay", "bank_transfer"}),
          d2 \in PayoutRequests({100000, 6000000}, {"instapay", "wallet"}) :
          /\ d1.method = "instapay" => d1.destination.ipa # Null
          /\ payouts = <<createPayout(impl, d1), createPayout(impl, d2)>>
    /\ NoPayoutWork
    /\ NoScan

NextPayout ==
    \/ processScheduledPayouts
    \/ retryFailedPayouts
    \/ \E j \in Jobs : NextGroup(j)
    \/ \E j \in Jobs : BeginPayout(j)
    \/ \E j \in Jobs, o \in RailOutcomes, d \in BOOLEAN : FinishPayout(j, o, d)
    \/ \E j \in Jobs, o \in RailOutcomes : SubmitBatch(j, o)
    \/ \E id \in PayoutIds : approvePayout(id)
    \/ \E id \in PayoutIds : cancelPayout(id)
    \/ \E ref \in References, s \in AllStatuses, d \in BOOLEAN : Confirm(ref, s, d)

SpecPayout == InitPayout /\ [][NextPayout]_vars

\* ------------------------------------------------- payout requests as made
\* createPayout called with any request, the fee given or left out
MaxRequests == 2

RequestFees == {Null, 500}

RequestPayout ==
    /\ Len(payouts) < MaxRequests
    /\ \E d \in PayoutRequests({100000, 6000000},
                               {"instapay", "bank_transfer", "wallet"}),
          f \in RequestFees :
          payouts' = Append(payouts, createPayout(impl, [d EXCEPT !.fee = f]))
    /\ UNCHANGED <<scanVars, settleVars, faults, impl, payoutVars>>

InitRequest ==
    /\ subMerchant \in {sm \in SubMerchants :
                           sm.settlementCycle = "D+1" /\ sm.riskScore = Null
                           /\ sm.reservePercentage = Null}
    /\ transactions = [t \in TxIds |-> TxRow(12010, 300, 1)]
    /\ refunds = [f \in RefundIds |->
            [amount |-> 2000, refundFee |-> 100, completedAt |-> 1,
             status |-> "completed", settlementId |-> Null]]
    /\ disputes = [d \in DisputeIds |->
            [amount |-> 5000, disputeFee |-> 1500, resolvedAt |-> 2,
             status |-> "lost", settlementId |-> Null]]
    /\ reserves = <<>>
    /\ settlements = <<>>
    /\ items = {}
    /\ today = 1
    /\ run = [r \in Runners |-> IdleRun]
    /\ stlNotes = {}
    /\ faults = 0
    /\ impl \in Impls
    /\ payouts = <<>>
    /\ NoPayoutWork
    /\ NoScan

NextRequest == RequestPayout

SpecRequest == InitRequest /\ [][NextRequest]_vars

\* ------------------------------------------- the run over the sub-merchants
ActiveMerchants == {k \in DOMAIN merchants : merchants[k].status = "active"}

calculateSettlementsForDate(settlementDate) ==
    /\ scan.pc \in {"idle", "done"}
    /\ LET queue == Ascending(ActiveMerchants)
       IN  scan' = [pc |-> IF queue = <<>> THEN "done" ELSE "loop",
                    date |-> settlementDate, queue |-> queue,
                    evaluated |-> {}, due |-> {}, threw |-> {},
                    settlements |-> <<>>,
                    attempts |-> [k \in DOMAIN merchants |-> 0]]
    /\ UNCHANGED <<merchants, calendar, settleVars, payouts, faults, impl, payoutVars>>

runDailySettlement == \E settlementDate \in Dates : calculateSettlementsForDate(settlementDate)

\* One turn of the loop: the sub-merchant at the head of the list is skipped
\* when it is not due, and otherwise settled inside the try/catch.
SettleNext(outcome) ==
    /\ scan.pc = "loop"
    /\ LET k == Head(scan.queue)
           isDue == shouldSettleToday(merchants[k], scan.date)
           queue == IF isDue THEN afterMerchant(scan.queue, outcome) ELSE Tail(scan.queue)
       IN  /\ ~isDue => outcome = "null"
           /\ scan' = [scan EXCEPT
                  !.pc = IF queue = <<>> THEN "done" ELSE "loop",
                  !.queue = queue,
                  !.evaluated = @ \cup {k},
                  !.due = IF isDue THEN @ \cup {k} ELSE @,
                  !.attempts[k] = IF isDue THEN @ + 1 ELSE @,
                  !.threw = IF isDue /\ outcome = "threw" THEN @ \cup {k} ELSE @,
                  !.settlements = IF isDue /\ outcome = "settled"
                                     THEN Append(@, k) ELSE @]
    /\ UNCHANGED <<merchants, calendar, settleVars, payouts, faults, impl, payoutVars>>

MerchantRow(status, cycle, dayOfWeek, dayOfMonth) ==
    [status |-> status, settlementCycle |-> cycle,
     settlementDayOfWeek |-> dayOfWeek, settlementDayOfMonth |-> dayOfMonth]

InitScan ==
    /\ subMerchant \in {sm \in SubMerchants :
                           sm.settlementCycle = "D+1" /\ sm.riskScore = Null
                           /\ sm.reservePercentage = Null}
    /\ transactions = [t \in TxIds |-> TxRow(12010, 300, 1)]
    /\ refunds = [f \in RefundIds |->
            [amount |-> 2000, refundFee |-> 100, completedAt |-> 1,
             status |-> "completed", settlementId |-> Null]]
    /\ disputes = [d \in DisputeIds |->
            [amount |-> 5000, disputeFee |-> 1500, resolvedAt |-> 2,
             status |-> "lost", settlementId |-> Null]]
    /\ reserves = <<>>
    /\ settlements = <<>>
    /\ items = {}
    /\ today = 1
    /\ run = [r \in Runners |-> IdleRun]
    /\ stlNotes = {}
    /\ faults = 0
    /\ impl = "payfac"
    /\ payouts = <<>>
    /\ NoPayoutWork
    /\ \E c \in Cycles, configured \in BOOLEAN, last \in {"MONTHLY", "D+1"} :
          merchants = <<MerchantRow("active", c,
                                    IF configured THEN 3 ELSE Null,
                                    IF configured THEN 14 ELSE Null),
                        MerchantRow("suspended", "D+0", Null, Null),
                        MerchantRow("active", last, Null, 31)>>
    /\ scan = IdleScan
    /\ calendar = NoCalendar

NextScan ==
    \/ runDailySettlement
    \/ \E outcome \in MerchantOutcomes : SettleNext(outcome)

SpecScan == InitScan /\ [][NextScan]_vars

\* ------------------------------------------------ the due dates of a cycle
\* The calendar is walked one day at a time over months of the given lengths;
\* on every day the sub-merchant is due, its settlement period is computed.
MonthsAhead == 3

\* the lengths of the months of a year, February in a leap year or not
Year(february) == <<31, february, 31, 30, 31, 30, 31, 31, 30, 31, 30, 31>>

\* the months from a given month of the year on
MonthsFrom(first, february) ==
    [k \in 1 .. MonthsAhead |-> Year(february)[((first + k - 2) % 12) + 1]]

afterDay(cal) ==
    IF cal.dayOfMonth < Head(cal.months)
    THEN [cal EXCEPT !.day = @ + 1, !.dayOfWeek = (@ + 1) % 7, !.dayOfMonth = @ + 1]
    ELSE [cal EXCEPT !.day = @ + 1, !.dayOfWeek = (@ + 1) % 7, !.dayOfMonth = 1,
                     !.months = Tail(@)]

settledOn(cal, sm) ==
    IF shouldSettleToday(sm, [dayOfWeek |-> cal.dayOfWeek, dayOfMonth |-> cal.dayOfMonth])
    THEN [cal EXCEPT !.previous = cal.latest,
                     !.latest = getSettlementPeriod(sm, cal.day)]
    ELSE cal

\* a day goes by and the daily run looks at the sub-merchant for the next one
NextDay ==
    /\ calendar.months # <<>>
    /\ LET cal == afterDay(calendar)
       IN  /\ cal.months # <<>>
           /\ calendar' = settledOn(cal, merchants[1])
    /\ UNCHANGED <<merchants, scan, settleVars, payouts, faults, impl, payoutVars>>

ScheduleRows ==
    {MerchantRow("active", c, Null, Null) : c \in {"D+0", "D+1", "D+2", "D+3"}}
    \cup {MerchantRow("active", c, w, Null) : c \in {"WEEKLY", "BIWEEKLY"}, w \in {Null, 3}}
    \cup {MerchantRow("active", "MONTHLY", Null, d) : d \in {Null, 15, 31}}

InitCalendar ==
    /\ subMerchant \in {sm \in SubMerchants :
                           sm.settlementCycle = "D+1" /\ sm.riskScore = Null
                           /\ sm.reservePercentage = Null}
    /\ transactions = [t \in TxIds |-> TxRow(12010, 300, 1)]
    /\ refunds = [f \in RefundIds |->
            [amount |-> 2000, refundFee |-> 100, completedAt |-> 1,
             status |-> "completed", settlementId |-> Null]]
    /\ disputes = [d \in DisputeIds |->
            [amount |-> 5000, disputeFee |-> 1500, resolvedAt |-> 2,
             status |-> "lost", settlementId |-> Null]]
    /\ reserves = <<>>
    /\ settlements = <<>>
    /\ items = {}
    /\ today = 1
    /\ run = [r \in Runners |-> IdleRun]
    /\ stlNotes = {}
    /\ faults = 0
    /\ impl = "payfac"
    /\ payouts = <<>>
    /\ NoPayoutWork
    /\ scan = IdleScan
    /\ \E row \in ScheduleRows : merchants = <<row>>
    /\ \E w \in DaysOfWeek, first \in 1 .. 12, february \in {28, 29} :
          calendar = settledOn([NoCalendar EXCEPT
                                   !.dayOfWeek = w,
                                   !.months = MonthsFrom(first, february)],
                               merchants[1])

NextCalendar == NextDay

SpecCalendar == InitCalendar /\ [][NextCalendar]_vars

\* ------------------------------------------------- the daily run, every day
\* runDailySettlement fires once on every day and settles the day before;
\* calendar.day is the last day on which it fired.
LastDay == 4

DailyCalculate ==
    /\ run["cron"].pc = "idle"
    /\ calendar.day < today
    /\ LET settlementDate == today - 1
           p == getSettlementPeriod(subMerchant, settlementDate)
           c == calculateAmounts(p.periodStart, p.periodEnd)
       IN  run' = [run EXCEPT !["cron"] =
                     [pc |-> "computed", date |-> settlementDate, calc |-> c]]
    /\ calendar' = [calendar EXCEPT !.day = today]
    /\ UNCHANGED <<merchants, scan, subMerchant, transactions, refunds, disputes,
                   reserves, settlements, items, payouts, today, stlNotes, faults,
                   impl, payoutVars>>

DayPasses ==
    /\ run["cron"].pc = "idle"
    /\ calendar.day = today
    /\ today < LastDay
    /\ today' = today + 1
    /\ UNCHANGED <<scanVars, subMerchant, transactions, refunds, disputes, reserves,
                   settlements, items, payouts, run, stlNotes, faults, impl,
                   payoutVars>>

InitDaily ==
    /\ InitSettle
    /\ subMerchant.settlementCycle = "D+1"

NextDaily ==
    \/ DailyCalculate
    \/ ReturnNull("cron")
    \/ Commit("cron", NoFailure)
    \/ DayPasses

SpecDaily == InitDaily /\ [][NextDaily]_vars /\ WF_vars(NextDaily)

\* ------------------------------------- the pipeline with every run kept up
\* the rail reports on a transfer it accepted and that is still awaited.
\* The handler looks the payout up by processorReference: a sent payout
\* whose row holds no reference is not found, and the report is dropped
Deliver(id, status) ==
    LET reference == payouts[id].processorReference
        found == IF impl = "payfac"
                 THEN confirmPayoutCompletion(payouts[id], status, FALSE)
                 ELSE handlePayoutWebhook(payouts[id], status, FALSE)
        res   == IF reference = Null THEN [row |-> payouts[id], notes |-> {}]
                 ELSE found
    IN  /\ rail[id] > 0
        /\ payouts[id].status = "sent"
        /\ status \in ConfirmStatuses(impl)
        /\ payouts' = [payouts EXCEPT ![id] = res.row]
        /\ payNotes' = [payNotes EXCEPT ![id] = Bump(@, res.notes)]
        /\ confirmed' = confirmed \cup {<<reference, status>>}
        /\ UNCHANGED <<scanVars, settleVars, faults, impl, batches, job, rail,
                       deliveries>>

JobStep ==
    \/ \E j \in Jobs : NextGroup(j)
    \/ \E j \in Jobs : BeginPayout(j)
    \/ \E j \in Jobs, o \in RailOutcomes : FinishPayout(j, o, FALSE)
    \/ \E j \in Jobs, o \in RailOutcomes : SubmitBatch(j, o)

NextDeliver ==
    \/ processScheduledPayouts
    \/ retryFailedPayouts
    \/ JobStep
    \/ \E id \in PayoutIds : approvePayout(id)
    \/ \E id \in PayoutIds : cancelPayout(id)
    \/ \E id \in PayoutIds, s \in AllStatuses : Deliver(id, s)

\* the runs come round again, a run that started goes on to its end, what
\* waits for approval is approved and the rail reports on what it accepted
FairDeliver ==
    /\ WF_vars(processScheduledPayouts)
    /\ WF_vars(retryFailedPayouts)
    /\ WF_vars(JobStep)
    /\ \A id \in PayoutIds : WF_vars(approvePayout(id))
    /\ \A id \in PayoutIds : WF_vars(\E s \in AllStatuses : Deliver(id, s))

SpecDeliver == InitPayout /\ [][NextDeliver]_vars /\ FairDeliver

\* =================================================================== claims
SettlementIds == DOMAIN settlements
LedgerTypes == {"transaction", "refund", "dispute"}

\* C1: every persisted Settlement satisfies the conservation law
\* netAmount = grossSales - grossRefunds - grossDisputes - totalFees
\* - reserveHeld + reserveReleased, with totalFees the sum of the four fee
\* totals and reserveHeld the product grossSales x reservePercentage rounded
\* to the nearest piastre (a tie away from zero).
C1_Conservation ==
    \A sid \in SettlementIds :
        LET s == settlements[sid]
            exact == s.grossSales * subMerchant.reservePercentage
            err == 2 * (PctScale * s.reserveHeld - exact)
        IN  /\ s.netAmount = s.grossSales - s.grossRefunds - s.grossDisputes
                               - s.totalFees - s.reserveHeld + s.reserveReleased
            /\ s.totalFees = s.processorFees + s.platformFees
                               + s.refundFees + s.disputeFees
            /\ -PctScale < err /\ err <= PctScale

\* C1 witness: a settlement with sales, fees, a released reserve and a held
\* reserve whose exact value was a tie between two piastres
C1_Witness ==
    \E sid \in SettlementIds :
        LET s == settlements[sid]
        IN  /\ s.reserveReleased > 0
            /\ s.reserveHeld > 0
            /\ s.totalFees > 0
            /\ s.grossDisputes > 0
            /\ (2 * s.grossSales * subMerchant.reservePercentage) % (2 * PctScale)
                   = PctScale

\* C2: when runs of calculateSettlementForMerchant do not overlap, a step
\* never replaces a Transaction's settlement id by another one: a set id
\* stays, or is reset to null by a rejectSettlement step.
C2_ClaimedOnce ==
    [][\A t \in TxIds :
          transactions[t].settlementId # Null =>
              \/ transactions'[t].settlementId = transactions[t].settlementId
              \/ /\ transactions'[t].settlementId = Null
                 /\ \E sid \in SettlementIds : rejectSettlement(sid)]_vars

\* C2 witness: a second settlement was created for a period that contains a
\* transaction the first settlement had claimed, and the claim is intact
C2_Witness ==
    /\ Len(settlements) = 2
    /\ \E t \in TxIds :
          /\ transactions[t].settlementId = 1
          /\ Between(transactions[t].capturedAt,
                     settlements[2].periodStart, settlements[2].periodEnd)
          /\ [settlementId |-> 1, itemType |-> "transaction", referenceId |-> t]
                \in items

\* C3: with no call failing, no Transaction, Refund or Dispute is an item
\* of two Settlements that are both live (neither was rejected).
C3_NoDoubleCount ==
    faults = 0 =>
        \A i, j \in items :
            (/\ i.itemType \in LedgerTypes
             /\ i.itemType = j.itemType
             /\ i.referenceId = j.referenceId
             /\ settlements[i.settlementId].status # "on_hold"
             /\ settlements[j.settlementId].status # "on_hold")
            => i.settlementId = j.settlementId

\* C4: a Settlement that was not rejected exists only together with all it
\* claims: its items, and its id on as many Transactions, Refunds and
\* Disputes as it counted.
Claimed(rows, sid) == Cardinality({k \in DOMAIN rows : rows[k].settlementId = sid})

C4_AllOrNothing ==
    \A sid \in SettlementIds :
        LET s == settlements[sid]
        IN  s.status # "on_hold" =>
              /\ Claimed(transactions, sid) = s.transactionCount
              /\ Claimed(refunds, sid) = s.refundCount
              /\ Claimed(disputes, sid) = s.disputeCount
              /\ \E i \in items : i.settlementId = sid
              /\ s.reserveHeld > 0 =>
                    \E v \in ReserveIds : reserves[v].settlementId = sid

\* C5: the dispatch failure that brings a Payout's retryCount to maxRetries
\* leaves it failed with retryCount = maxRetries, and a run starts the
\* dispatch of a Payout only while its retryCount is below maxRetries.
C5_RetryBound ==
    [][\A j \in Jobs :
          /\ (job[j].pc = "loop" /\ job'[j].pc = "sending")
                => LET id == job'[j].cur.id
                   IN  payouts[id].retryCount < payouts[id].maxRetries
          /\ (/\ job[j].pc = "sending"
              /\ job'[j].pc # "sending"
              /\ rail'[job[j].cur.id] = rail[job[j].cur.id]
              /\ job[j].cur.row.retryCount + 1 = job[j].cur.row.maxRetries)
                => LET id == job[j].cur.id
                   IN  /\ payouts'[id].status = "failed"
                       /\ payouts'[id].retryCount = payouts'[id].maxRetries]_vars

\* C6: a confirmation <<reference, completed>> delivered again, to a Payout
\* the first delivery left completed, changes neither the Payout nor the
\* notifications sent for it.
C6_SecondDelivery ==
    [][\A id \in PayoutIds :
          LET reference == payouts[id].processorReference
          IN  (/\ reference # Null
               /\ <<reference, "completed">> \in confirmed
               /\ payouts[id].status = "completed"
               /\ Confirm(reference, "completed", FALSE))
              => /\ payouts'[id] = payouts[id]
                 /\ payNotes'[id] = payNotes[id]]_vars

\* C7: a step never changes the status or the retryCount of a Payout that
\* is completed, cancelled, or failed with its retries used up.
Terminal(row) ==
    \/ row.status \in {"completed", "cancelled"}
    \/ row.status = "failed" /\ row.retryCount >= row.maxRetries

C7_TerminalFrozen ==
    [][\A id \in PayoutIds :
          Terminal(payouts[id])
              => /\ payouts'[id].status = payouts[id].status
                 /\ payouts'[id].retryCount = payouts[id].retryCount]_vars

\* C8: when the rail's answer to a transfer call is a timeout, the Payout
\* stays processing or sent and its retryCount stays as it was.
C8_TimeoutAwaits ==
    [][\A j \in Jobs :
          (/\ job[j].pc = "sending"
           /\ callsRail(impl, job[j].cur.row)
           /\ FinishPayout(j, "timeout", FALSE))
              => LET id == job[j].cur.id
                 IN  /\ payouts'[id].status \in {"processing", "sent"}
                     /\ payouts'[id].retryCount = payouts[id].retryCount]_vars

\* C9: a dispatch during which the notification service throws leaves the
\* Payout with the status, retryCount and processor reference it would have
\* had with the notification delivered.
C9_SinkFailureHarmless ==
    [][\A j \in Jobs, o \in RailOutcomes :
          (job[j].pc = "sending" /\ FinishPayout(j, o, TRUE))
              => LET id == job[j].cur.id
                     ok == dispatched(impl, id, job[j].cur.row, o, FALSE).row
                 IN  /\ payouts'[id].status = ok.status
                     /\ payouts'[id].retryCount = ok.retryCount
                     /\ payouts'[id].processorReference = ok.processorReference]_vars

\* C10: a run whose period has no activity, or whose net amount is below
\* the configured minimumPayoutAmount, ends without any change to the
\* stored rows.
StoredState ==
    <<transactions, refunds, disputes, reserves, settlements, items, payouts,
      stlNotes>>

C10_SkipLeavesState ==
    [][\A r \in Runners :
          LET c == run[r].calc
          IN  (/\ run[r].pc = "computed"
               /\ run'[r].pc = "idle"
               /\ \/ (c.transactionCount = 0 /\ c.refundCount = 0
                        /\ c.disputeCount = 0 /\ c.releasableReserves = {})
                  \/ (subMerchant.minimumPayoutAmount # Null
                        /\ c.netAmount < subMerchant.minimumPayoutAmount))
              => UNCHANGED StoredState]_vars

\* C10 witness: a run holds a calculation with activity and a net amount
\* between the default and the configured minimum
C10_Witness ==
    \E r \in Runners :
        /\ run[r].pc = "computed"
        /\ run[r].calc.transactionCount > 0
        /\ subMerchant.minimumPayoutAmount # Null
        /\ run[r].calc.netAmount >= DefaultMinimumPayout
        /\ run[r].calc.netAmount < subMerchant.minimumPayoutAmount

\* C11: a run's releasableReserves holds only Reserves whose releaseDate
\* is not after its periodEnd; the step that creates a Settlement releases
\* exactly the held Reserves whose releaseDate is not after its periodEnd;
\* a released Reserve stays released, and no Reserve is an item of two
\* Settlements.
C11_ReleasedOnce ==
    [][/\ \A r \in Runners :
             run'[r].pc = "computed" =>
                 \A v \in run'[r].calc.releasableReserves :
                     reserves'[v].releaseDate <= run'[r].calc.periodEnd
       /\ \A v \in ReserveIds :
             reserves[v].status = "released" => reserves'[v].status = "released"
       /\ Len(settlements') > Len(settlements) =>
             \A v \in ReserveIds :
                 reserves[v].status = "held" =>
                     (reserves'[v].status = "released"
                        <=> reserves[v].releaseDate
                               <= settlements'[Len(settlements')].periodEnd)
       /\ \A i, j \in items' :
             (/\ i.itemType = "reserve" /\ j.itemType = "reserve"
              /\ i.referenceId # Null
              /\ i.referenceId = j.referenceId)
             => i.settlementId = j.settlementId]_vars

\* C12: every Payout row createPayout stores has netAmount = amount - fee.
C12_NetIsAmountLessFee ==
    \A p \in DOMAIN payouts :
        payouts[p].netAmount = payouts[p].amount - payouts[p].fee

\* C13: whenever the settlement run has evaluated a sub-merchant for its date,
\* it found the sub-merchant due as follows.  On a D+0..D+3 cycle: always.
\* WEEKLY: exactly when the date's weekday is the settlement weekday (Sunday
\* when none is configured).  BIWEEKLY: only when the weekday is the
\* settlement weekday and the week of the month (whole weeks elapsed in the
\* month) is even, so that of two dates one week apart in a month at most one
\* is due.  MONTHLY: exactly when the day of the month is the settlement day
\* (the 1st when none is configured).
OneWeekApart(date) ==
    {d \in Dates : /\ d.dayOfWeek = date.dayOfWeek
                   /\ d.dayOfMonth \in {date.dayOfMonth - 7, date.dayOfMonth + 7}}

C13_DueByCycle ==
    \A k \in scan.evaluated :
        LET sm == merchants[k]
            date == scan.date
            isDue == k \in scan.due
        IN  /\ sm.settlementCycle \in {"D+0", "D+1", "D+2", "D+3"} => isDue
            /\ sm.settlementCycle = "WEEKLY" =>
                  (isDue <=> date.dayOfWeek = sm.settlementDayOfWeek)
            /\ sm.settlementCycle = "BIWEEKLY" =>
                  (isDue => /\ date.dayOfWeek = sm.settlementDayOfWeek
                            /\ (date.dayOfMonth \div 7) % 2 = 0
                            /\ \A d \in OneWeekApart(date) : ~shouldSettleToday(sm, d))
            /\ sm.settlementCycle = "MONTHLY" =>
                  (isDue <=> date.dayOfMonth =
                                 IF sm.settlementDayOfMonth = Null THEN 1
                                 ELSE sm.settlementDayOfMonth)

C13_Witness ==
    \E k \in scan.due :
        /\ merchants[k].settlementCycle = "BIWEEKLY"
        /\ merchants[k].settlementDayOfWeek = 3
        /\ scan.date.dayOfMonth = 14

\* C16: no sub-merchant is attempted twice in a settlement run, and when
\* calculateSettlementsForDate returns, every active sub-merchant has been
\* evaluated and every active sub-merchant due on the run's date has been
\* attempted exactly once (the others not at all), whichever of the attempts
\* threw.
C16_FanOutIsolated ==
    /\ \A k \in DOMAIN scan.attempts : scan.attempts[k] <= 1
    /\ scan.pc = "done" =>
          /\ scan.evaluated = ActiveMerchants
          /\ \A k \in DOMAIN merchants :
                scan.attempts[k] =
                    IF k \in ActiveMerchants /\ shouldSettleToday(merchants[k], scan.date)
                    THEN 1 ELSE 0

C16_Witness ==
    /\ scan.pc = "done"
    /\ 1 \in scan.threw
    /\ scan.attempts[3] = 1
    /\ scan.settlements = <<3>>

\* C14: every step that changes the status of a stored Payout makes one of the
\* changes pending->approved, approved->processing, processing->sent,
\* processing->completed, processing->failed, sent->completed, sent->failed,
\* sent->returned, pending->cancelled, or failed->approved with
\* retryCount < maxRetries before the step.
PayoutTransitions ==
    {<<"pending", "approved">>, <<"approved", "processing">>,
     <<"processing", "sent">>, <<"processing", "completed">>,
     <<"processing", "failed">>, <<"sent", "completed">>, <<"sent", "failed">>,
     <<"sent", "returned">>, <<"pending", "cancelled">>}

C14_PayoutStateMachine ==
    [][\A id \in DOMAIN payouts :
          (id \in DOMAIN payouts' /\ payouts'[id].status # payouts[id].status) =>
              \/ <<payouts[id].status, payouts'[id].status>> \in PayoutTransitions
              \/ /\ payouts[id].status = "failed"
                 /\ payouts'[id].status = "approved"
                 /\ payouts[id].retryCount < payouts[id].maxRetries]_vars

\* C15: a step that takes a PayoutBatch out of processing leaves it completed
\* iff its failedCount is 0, failed iff its successfulCount is 0 and its
\* failedCount is not, and partially_completed otherwise; and the step with
\* which a run is done with a batch all of whose members the rail accepted
\* leaves the batch completed with successfulCount = payoutCount and
\* failedCount = 0, every member being in sent unless a confirmation has
\* been applied to it since.
BatchIds == DOMAIN batches

Derived(batch) ==
    /\ batch.status = "completed" <=> batch.failedCount = 0
    /\ batch.status = "failed" <=> (batch.successfulCount = 0 /\ batch.failedCount > 0)
    /\ batch.status = "partially_completed" <=>
          (batch.successfulCount > 0 /\ batch.failedCount > 0)

AllAccepted(j) ==
    \/ impl = "services" /\ SubmitBatch(j, "accepted")
    \/ /\ impl = "payfac" /\ NextGroup(j)
       /\ job[j].batch # Null
       /\ job[j].successCount = batches[job[j].batch].payoutCount

LeftInSent(p) ==
    \/ payouts'[p].status = "sent"
    \/ \E c \in confirmed' : c[1] = payouts'[p].processorReference

C15_BatchStatusDerived ==
    [][/\ \A b \in BatchIds :
             batches'[b].status # batches[b].status => Derived(batches'[b])
       /\ \A j \in Jobs :
             AllAccepted(j) =>
                LET b == job[j].batch
                IN  /\ batches'[b].status = "completed"
                    /\ batches'[b].successfulCount = batches'[b].payoutCount
                    /\ batches'[b].failedCount = 0
                    /\ \A p \in DOMAIN payouts :
                          payouts[p].batchId = b => LeftInSent(p)]_vars

\* C17: a step changes the status of a stored Settlement only from calculated
\* to approved or from calculated to on_hold; approveSettlement of a
\* settlement that is not calculated changes nothing stored; and a settlement
\* that is approved with its payout created is not moved to on_hold by any
\* step and keeps every Transaction and Refund linked to it.
SettlementTransitions == {<<"calculated", "approved">>, <<"calculated", "on_hold">>}

Paid(sid) == settlements[sid].status = "approved" /\ settlements[sid].payoutId # Null

C17_SettlementStateMachine ==
    [][\A sid \in SettlementIds :
          /\ settlements'[sid].status # settlements[sid].status =>
                <<settlements[sid].status, settlements'[sid].status>>
                    \in SettlementTransitions
          /\ (/\ settlements[sid].status # "calculated"
              /\ \E f \in BOOLEAN : approveSettlement(sid, "operator", f))
             => UNCHANGED StoredState
          /\ Paid(sid) =>
                /\ settlements'[sid].status # "on_hold"
                /\ \A t \in TxIds : transactions[t].settlementId = sid
                                       => transactions'[t].settlementId = sid
                /\ \A f \in RefundIds : refunds[f].settlementId = sid
                                           => refunds'[f].settlementId = sid]_vars

\* C18: a rejectSettlement(s) step sets settlementId to null on exactly the
\* Transactions and Refunds that were linked to s and changes nothing else of
\* them, leaves s on_hold with the reason recorded and nothing else of it
\* changed, and leaves unchanged every other Settlement, every Dispute, every
\* Reserve, and all SettlementItems.
Unlinked(rows, rowsAfter, sid) ==
    \A k \in DOMAIN rows :
        rowsAfter[k] = IF rows[k].settlementId = sid
                       THEN [rows[k] EXCEPT !.settlementId = Null] ELSE rows[k]

C18_RejectFrame ==
    [][\A sid \in SettlementIds :
          rejectSettlement(sid) =>
              /\ Unlinked(transactions, transactions', sid)
              /\ Unlinked(refunds, refunds', sid)
              /\ settlements' = [settlements EXCEPT
                                    ![sid] = [@ EXCEPT !.status = "on_hold",
                                                       !.adjustmentNotes = "reason"]]
              /\ UNCHANGED <<disputes, reserves, items>>]_vars

\* settlement 1 has been rejected: its transactions are unlinked while its
\* dispute, the reserve it holds and its items are still in place
C18_Witness ==
    /\ 1 \in SettlementIds
    /\ settlements[1].status = "on_hold"
    /\ \A t \in TxIds : transactions[t].settlementId # 1
    /\ \E d \in DisputeIds : disputes[d].settlementId = 1
    /\ \E v \in ReserveIds : reserves[v].settlementId = 1 /\ reserves[v].status = "held"
    /\ \E i \in items : i.settlementId = 1 /\ i.itemType = "transaction"

\* C19: the step that stores a new Settlement leaves it approved by "system"
\* with a payout created for it if and only if its netAmount is at most the
\* auto-approve threshold and the sub-merchant's risk score is absent or at
\* most the risk ceiling; otherwise it leaves it calculated with no payout
\* created, and no later step creates a payout for a settlement that stays
\* calculated.
Eligible(stl) ==
    /\ stl.netAmount <= AutoApproveThreshold
    /\ subMerchant.riskScore = Null \/ subMerchant.riskScore <= RiskCeiling

C19_AutoApproveRule ==
    [][/\ Len(settlements') > Len(settlements) =>
             LET stl == settlements'[Len(settlements')]
             IN  IF Eligible(stl)
                 THEN /\ stl.status = "approved"
                      /\ stl.approvedBy = "system"
                      /\ stl.payoutId = Len(payouts')
                      /\ Len(payouts') = Len(payouts) + 1
                 ELSE /\ stl.status = "calculated"
                      /\ stl.payoutId = Null
                      /\ payouts' = payouts
       /\ \A sid \in SettlementIds :
             (settlements[sid].status = "calculated"
                 /\ settlements'[sid].status = "calculated") =>
                 /\ settlements'[sid].payoutId = Null
                 /\ \A k \in DOMAIN payouts' \ DOMAIN payouts :
                       payouts'[k].settlementId # sid]_vars

\* C20: the step in which processBankTransferBatch records the bank's answer
\* to a submitted batch leaves every member payout sent when the bank
\* accepted the batch, and leaves every member payout failed with its
\* retryCount one higher when the bank declined the batch (success = false)
\* or the submission threw.
C20_BatchOutcomeReachesMembers ==
    [][\A j \in Jobs, outcome \in RailOutcomes :
          SubmitBatch(j, outcome) =>
              \A p \in Members(job[j].queue) :
                  IF outcome = "accepted"
                  THEN payouts'[p].status = "sent"
                  ELSE /\ payouts'[p].status = "failed"
                       /\ payouts'[p].retryCount = payouts[p].retryCount + 1]_vars

\* C21: the step that ends the dispatch of a payout whose method-specific
\* destination is missing does not call the rail, leaves the payout's
\* retryCount as it was, and does not leave the payout where a later run
\* picks it up again (approved, or failed with retries remaining).
MissingDestination(row) ==
    CASE row.payoutMethod = "instapay" -> row.destination.ipa = Null
      [] row.payoutMethod = "bank_transfer" ->
            row.destination.accountNumber = Null /\ row.destination.iban = Null
      [] row.payoutMethod = "wallet" -> row.destination.number = Null
      [] OTHER -> FALSE

PickedUpAgain(row) ==
    \/ row.status = "approved"
    \/ row.status = "failed" /\ row.retryCount < row.maxRetries

C21_MissingDestinationNotRetried ==
    [][\A j \in Jobs, outcome \in RailOutcomes, sinkDown \in BOOLEAN :
          (FinishPayout(j, outcome, sinkDown) /\ MissingDestination(job[j].cur.row)) =>
              LET id == job[j].cur.id
              IN  /\ rail'[id] = rail[id]
                  /\ payouts'[id].retryCount = payouts[id].retryCount
                  /\ ~PickedUpAgain(payouts'[id])]_vars

\* C22: a step delivers a notification to the sub-merchant about a payout only
\* if it leaves that payout completed or failed with retryCount >= maxRetries,
\* and every step that makes a payout failed with retryCount >= maxRetries
\* delivers one.
MerchantNotes == {"sent", "completed", "success", "failed"}

Notified(id) == \E k \in MerchantNotes : payNotes'[id][k] > payNotes[id][k]

FinalFailed(row) == row.status = "failed" /\ row.retryCount >= row.maxRetries

C22_NotifiedOnTerminalOnly ==
    [][\A id \in PayoutIds :
          /\ Notified(id) =>
                payouts'[id].status = "completed" \/ FinalFailed(payouts'[id])
          /\ (FinalFailed(payouts'[id]) /\ ~FinalFailed(payouts[id])) => Notified(id)]_vars

\* C23: no two stored Settlements of the sub-merchant have the same period
\* (periodStart, periodEnd).
C23_OneSettlementPerPeriod ==
    \A a, b \in SettlementIds :
        (/\ settlements[a].periodStart = settlements[b].periodStart
         /\ settlements[a].periodEnd = settlements[b].periodEnd) => a = b

\* C25: no Transaction is counted by two Settlements that each have a Payout
\* that is not cancelled.
CountedBy(t) ==
    {i.settlementId : i \in {x \in items : x.itemType = "transaction" /\ x.referenceId = t}}

Backed(sid) ==
    /\ sid \in SettlementIds
    /\ settlements[sid].payoutId # Null
    /\ settlements[sid].payoutId \in DOMAIN payouts
    /\ payouts[settlements[sid].payoutId].status # "cancelled"

C25_OnePayoutPerTransaction ==
    \A t \in TxIds : \A a, b \in CountedBy(t) : (Backed(a) /\ Backed(b)) => a = b

\* C24: no payout has more than one transfer accepted by the rail.
C24_AtMostOneAcceptedTransfer ==
    \A id \in PayoutIds : rail[id] <= 1

\* C27: the period computed on a due date starts on the day after the period
\* computed on the previous due date ended, so that consecutive periods
\* neither overlap nor leave a day uncovered.
C27_PeriodsTile ==
    calendar.previous # NoPeriod =>
        calendar.latest.periodStart = calendar.previous.periodEnd + 1

\* C28: every Settlement in status approved has its payoutId set to a stored
\* Payout whose amount is the settlement's netAmount, and no Settlement has
\* two Payouts created for it.
PayoutsOf(sid) == {p \in DOMAIN payouts : payouts[p].settlementId = sid}

C28_ApprovedHasOnePayout ==
    \A sid \in SettlementIds :
        /\ settlements[sid].status = "approved" =>
              /\ settlements[sid].payoutId # Null
              /\ settlements[sid].payoutId \in DOMAIN payouts
              /\ payouts[settlements[sid].payoutId].amount = settlements[sid].netAmount
        /\ Cardinality(PayoutsOf(sid)) <= 1

\* C29: no step takes a payout out of cancelled, and no step has the rail
\* accept a transfer for a payout that is cancelled.
C29_CancelledStaysCancelled ==
    [][\A id \in PayoutIds :
          payouts[id].status = "cancelled" =>
              /\ payouts'[id].status = "cancelled"
              /\ rail'[id] = rail[id]]_vars

\* C26: with the daily run firing on every day, every captured Transaction is
\* eventually assigned to a Settlement and stays so; only a transaction whose
\* day no run has come to yet may still be without one.
C26_EveryTransactionSettled ==
    <>[](\A t \in TxIds :
            \/ transactions[t].settlementId # Null
            \/ transactions[t].capturedAt >= calendar.day)

\* C30: with the scheduled run and the retry sweep kept up, approvals given
\* and the rail reporting on every transfer it accepted, every payout
\* eventually is completed, cancelled, returned, or failed with its retries
\* used up (short of the run being held back by the budget of batches).
Finished(id) ==
    \/ payouts[id].status \in {"completed", "cancelled", "returned"}
    \/ /\ payouts[id].status = "failed"
       /\ payouts[id].retryCount >= payouts[id].maxRetries

OutOfBatches ==
    /\ job["scheduled"].pc = "idle"
    /\ \E id \in PayoutIds :
          payouts[id].status = IF impl = "payfac" THEN "approved" ELSE "pending"
    /\ ~ENABLED processScheduledPayouts

C30_EveryPayoutFinishes ==
    \A id \in PayoutIds : <>(Finished(id) \/ OutOfBatches)


====
